---- MODULE Spec2Model ----
(***************************************************************************)
(* A model of acer-keyboard-rgb: the command line front end (main.rs), the *)
(* value parsers (utils.rs) and the interactive prompter (interactive.rs). *)
(*                                                                         *)
(* Texts are sequences of one-character strings, so that slicing, length   *)
(* tests, splitting and trimming are computed as the code computes them.   *)
(* Only ASCII texts are modelled.                                          *)
(***************************************************************************)
EXTENDS Integers, Sequences, FiniteSets, TLC

VARIABLES
    \* one invocation of main
    pc, cli, args, profiles, saved, controller, device, device_static,
    opens, writes, zones, speed, brightness, static_payloads, dynamic_payload,
    payloads, result,
    \* parse_color under test
    color_rgb, color_input, color_result,
    \* the interactive prompter
    ipc, prev_args, ia_args, entered, shown, retries

mainVars == <<pc, cli, args, profiles, saved, controller, device, device_static,
              opens, writes, zones, speed, brightness, static_payloads,
              dynamic_payload, payloads, result>>
colorVars == <<color_rgb, color_input, color_result>>
iaVars == <<ipc, prev_args, ia_args, entered, shown, retries>>
vars == <<mainVars, colorVars, iaVars>>

(***************************************************************************)
(* Bounds of the model.                                                    *)
(***************************************************************************)
MaxComponent == 10
MaxZone == 5
MaxZones == 2
MaxRetries == 1

(***************************************************************************)
(* Program constants.                                                      *)
(***************************************************************************)
PAYLOAD_SIZE == 16
PAYLOAD_SIZE_STATIC == 4
CHARACTER_DEVICE == "/dev/acer-gkbbl-0"
CHARACTER_DEVICE_STATIC == "/dev/acer-gkbbl-static-0"
U8Max == 255

\* Option<T>: None is the empty tuple, Some(x) the tuple of x
None == <<>>
Some(x) == <<x>>

(***************************************************************************)
(* Texts.                                                                  *)
(***************************************************************************)
Digits == <<"0", "1", "2", "3", "4", "5", "6", "7", "8", "9">>
HexLower == <<"a", "b", "c", "d", "e", "f">>
HexUpper == <<"A", "B", "C", "D", "E", "F">>

IndexIn(c, s) == IF \E i \in 1..Len(s) : s[i] = c
                 THEN CHOOSE i \in 1..Len(s) : s[i] = c
                 ELSE 0

\* char::to_digit(radix): -1 when c is no digit of the radix
ToDigit(c, radix) ==
    IF IndexIn(c, Digits) > 0 THEN IndexIn(c, Digits) - 1
    ELSE IF radix = 16 /\ IndexIn(c, HexLower) > 0 THEN 9 + IndexIn(c, HexLower)
    ELSE IF radix = 16 /\ IndexIn(c, HexUpper) > 0 THEN 9 + IndexIn(c, HexUpper)
    ELSE -1

RECURSIVE Accumulate(_, _, _)
\* the checked multiply-and-add loop of from_str_radix: -1 on an invalid
\* digit or when the value leaves u8
Accumulate(s, radix, acc) ==
    IF s = <<>> THEN acc
    ELSE LET d == ToDigit(Head(s), radix)
         IN  IF d < 0 \/ acc * radix + d > U8Max THEN -1
             ELSE Accumulate(Tail(s), radix, acc * radix + d)

\* u8::from_str_radix: an optional leading "+", then at least one digit;
\* -1 stands for Err
FromStrRadix(s, radix) ==
    IF s = <<>> THEN -1
    ELSE IF Len(s) = 1 /\ (s[1] = "+" \/ s[1] = "-") THEN -1
    ELSE IF s[1] = "+" THEN Accumulate(Tail(s), radix, 0)
    ELSE Accumulate(s, radix, 0)

IsWhitespace(c) == c = " "

RECURSIVE TrimStart(_)
TrimStart(s) == IF s # <<>> /\ IsWhitespace(Head(s)) THEN TrimStart(Tail(s)) ELSE s

RECURSIVE TrimEnd(_)
TrimEnd(s) == IF s # <<>> /\ IsWhitespace(s[Len(s)])
              THEN TrimEnd(SubSeq(s, 1, Len(s) - 1)) ELSE s

Trim(s) == TrimEnd(TrimStart(s))

RECURSIVE Split(_, _)
\* str::split(sep): the parts between separators, empty parts included
Split(s, sep) ==
    IF \E i \in 1..Len(s) : s[i] = sep
    THEN LET i == CHOOSE k \in 1..Len(s) :
                      s[k] = sep /\ \A j \in 1..(k - 1) : s[j] # sep
         IN  <<SubSeq(s, 1, i - 1)>> \o Split(SubSeq(s, i + 1, Len(s)), sep)
    ELSE <<s>>

Contains(s, c) == \E i \in 1..Len(s) : s[i] = c

RECURSIVE ToText(_)
\* u8::to_string and "{}" of a u8: decimal, no padding
ToText(n) == IF n < 10 THEN <<Digits[n + 1]>>
             ELSE ToText(n \div 10) \o <<Digits[(n % 10) + 1]>>

Ok(v) == [ok |-> TRUE, val |-> v]
Err(e) == [ok |-> FALSE, err |-> e]

(***************************************************************************)
(* utils.rs: the color parsers.                                            *)
(***************************************************************************)
parse_hex_color(hex) ==
    IF Len(hex) = 6 THEN
        LET red == FromStrRadix(SubSeq(hex, 1, 2), 16)
            green == FromStrRadix(SubSeq(hex, 3, 4), 16)
            blue == FromStrRadix(SubSeq(hex, 5, 6), 16)
        IN  IF red < 0 THEN Err("Invalid red component in hex")
            ELSE IF green < 0 THEN Err("Invalid green component in hex")
            ELSE IF blue < 0 THEN Err("Invalid blue component in hex")
            ELSE Ok(<<red, green, blue>>)
    ELSE IF Len(hex) = 3 THEN
        LET red == FromStrRadix(<<hex[1], hex[1]>>, 16)
            green == FromStrRadix(<<hex[2], hex[2]>>, 16)
            blue == FromStrRadix(<<hex[3], hex[3]>>, 16)
        IN  IF red < 0 THEN Err("Invalid red component in shorthand hex")
            ELSE IF green < 0 THEN Err("Invalid green component in shorthand hex")
            ELSE IF blue < 0 THEN Err("Invalid blue component in shorthand hex")
            ELSE Ok(<<red, green, blue>>)
    ELSE Err("Hex color must be either 3 or 6 characters long")

parse_rgb_tuple(input) ==
    LET parts == Split(input, ",")
    IN  IF Len(parts) # 3 THEN Err("RGB tuple must have exactly 3 components")
        ELSE LET red == FromStrRadix(Trim(parts[1]), 10)
                 green == FromStrRadix(Trim(parts[2]), 10)
                 blue == FromStrRadix(Trim(parts[3]), 10)
             IN  IF red < 0 THEN Err("Invalid red component in RGB")
                 ELSE IF green < 0 THEN Err("Invalid green component in RGB")
                 ELSE IF blue < 0 THEN Err("Invalid blue component in RGB")
                 ELSE Ok(<<red, green, blue>>)

parse_color(input) ==
    IF input # <<>> /\ Head(input) = "#" THEN parse_hex_color(Tail(input))
    ELSE IF Len(input) = 6 THEN parse_hex_color(input)
    ELSE IF Contains(input, ",") THEN parse_rgb_tuple(input)
    ELSE Err("Invalid color format. Use #rrggbb, #rgb, rrggbb, or r,g,b.")

(***************************************************************************)
(* main.rs: the typed values.                                              *)
(***************************************************************************)
\* enum LightingMode, in declaration order: `mode as u8` is the position
LightingMode == <<"Static", "Breath", "Neon", "Wave", "Shifting", "Zoom">>
\* #[serde(rename_all = "lowercase")]
LightingModeSerde == <<"static", "breath", "neon", "wave", "shifting", "zoom">>
\* enum Direction { RightToLeft = 1, LeftToRight = 2 }
Direction == <<"RightToLeft", "LeftToRight">>
\* #[serde(rename_all = "kebab-case")]
DirectionSerde == <<"right-to-left", "left-to-right">>

ModeAsU8(mode) == IndexIn(mode, LightingMode) - 1
DirectionAsU8(direction) == IndexIn(direction, Direction)

ALL_ZONES == <<1, 2, 3, 4>>

ZoneNew(zone) == IF zone = 0 THEN Ok(0)
                 ELSE IF zone \in 1..4 THEN Ok(zone)
                 ELSE Err("Zone must be 0 (all zones) or between 1 and 4")

\* 1 << (self.0 - 1) on u8. With overflow checks (a debug build) the
\* subtraction 0 - 1 and a shift by 8 or more panic; without them (a release
\* build) the subtraction wraps to 255 and the shift amount is taken modulo
\* the width.  Err("panic") stands for the panic.
ToMask(zone, overflow_checks) ==
    LET amount == (zone - 1) % (U8Max + 1)
    IN  IF overflow_checks /\ (zone = 0 \/ amount >= 8) THEN Err("panic")
        ELSE Ok((2 ^ (amount % 8)) % (U8Max + 1))

\* Speed::new without its range check
SpeedNew_Unchecked(s) == Ok(<<s>>)

\* the tuple structs Speed(u8) and Brightness(u8) are one-element tuples
SpeedNew(s) == IF s <= 9 THEN Ok(<<s>>) ELSE Err("Speed should be between 0 and 9")

BrightnessNew(b) == IF b <= 100 THEN Ok(<<b>>)
                    ELSE Err("Brightness must be between 0 and 100")

convert_zones(zs) ==
    IF Len(zs) = 1 /\ zs[1] = 0 THEN Ok(ALL_ZONES)
    ELSE IF \E i \in 1..Len(zs) : ~ZoneNew(zs[i]).ok
         THEN Err("Zone must be 0 (all zones) or between 1 and 4")
         ELSE Ok([i \in 1..Len(zs) |-> ZoneNew(zs[i]).val])

\* struct Args
MkArgs(mode, zs, s, b, direction, color, rgb, save, load, list, dry_run, interactive) ==
    [mode |-> mode, zones |-> zs, speed |-> s, brightness |-> b,
     direction |-> direction, color |-> color,
     red |-> rgb[1], green |-> rgb[2], blue |-> rgb[3],
     save |-> save, load |-> load, list |-> list, dry_run |-> dry_run,
     interactive |-> interactive]

(***************************************************************************)
(* Profiles: serde_json of Args.  A JSON value is modelled by its shape:   *)
(* null is <<"null">>, a string s is <<"string", s>>, enums are written    *)
(* under their serde names, numbers, booleans and arrays of numbers as     *)
(* themselves.                                                             *)
(***************************************************************************)
JsonOption(o) == IF o = None THEN <<"null">> ELSE <<"string", o[1]>>
FromJsonOption(j) == IF j[1] = "null" THEN None ELSE Some(j[2])

\* Serialize with the color field skipped (written as null)
Serialize_ColorSkipped(a) ==
    [mode |-> LightingModeSerde[IndexIn(a.mode, LightingMode)],
     zones |-> a.zones, speed |-> a.speed, brightness |-> a.brightness,
     direction |-> DirectionSerde[IndexIn(a.direction, Direction)],
     color |-> <<"null">>,
     red |-> a.red, green |-> a.green, blue |-> a.blue,
     save |-> JsonOption(a.save), load |-> JsonOption(a.load),
     list |-> a.list, dry_run |-> a.dry_run, interactive |-> a.interactive]

Serialize(a) ==
    [mode |-> LightingModeSerde[IndexIn(a.mode, LightingMode)],
     zones |-> a.zones, speed |-> a.speed, brightness |-> a.brightness,
     direction |-> DirectionSerde[IndexIn(a.direction, Direction)],
     color |-> JsonOption(a.color),
     red |-> a.red, green |-> a.green, blue |-> a.blue,
     save |-> JsonOption(a.save), load |-> JsonOption(a.load),
     list |-> a.list, dry_run |-> a.dry_run, interactive |-> a.interactive]

\* the file File::create has emptied and to_writer_pretty has not filled
Truncated == [truncated |-> TRUE]

Deserialize(j) ==
    IF "mode" \notin DOMAIN j THEN Err("Failed to parse profile")
    ELSE IF IndexIn(j.mode, LightingModeSerde) = 0 \/ IndexIn(j.direction, DirectionSerde) = 0
    THEN Err("Failed to parse profile")
    ELSE Ok([mode |-> LightingMode[IndexIn(j.mode, LightingModeSerde)],
             zones |-> j.zones, speed |-> j.speed, brightness |-> j.brightness,
             direction |-> Direction[IndexIn(j.direction, DirectionSerde)],
             color |-> FromJsonOption(j.color),
             red |-> j.red, green |-> j.green, blue |-> j.blue,
             save |-> FromJsonOption(j.save), load |-> FromJsonOption(j.load),
             list |-> j.list, dry_run |-> j.dry_run, interactive |-> j.interactive])

ProfileNames == {"A", "B"}
\* a profile file is None (no such file) or Some(its JSON)

(***************************************************************************)
(* interactive.rs: what gather_args returns for parsed answers.            *)
(***************************************************************************)
GatherArgs(ans) ==
    MkArgs(ans.mode,
           IF \E i \in 1..Len(ans.zones) : ans.zones[i] = 0 THEN <<1, 2, 3, 4>>
           ELSE ans.zones,
           IF ans.mode # "Static" THEN ans.speed ELSE 4,
           IF ans.mode # "Static" THEN ans.brightness ELSE 100,
           IF ans.mode # "Static" THEN ans.direction ELSE "LeftToRight",
           None, ans.color, None, None, FALSE, ans.dry_run, FALSE)

(***************************************************************************)
(* main.rs: one invocation of main, step by step.                          *)
(***************************************************************************)
NoProfiles == [n \in ProfileNames |-> None]

\* `saved` is a history variable: the Args value each profile file was last
\* written from

\* the process state right after Args::parse() returned c
Parsed(c) ==
    /\ pc' = "parsed"
    /\ cli' = c
    /\ args' = c
    /\ controller' = "none"
    /\ device' = FALSE
    /\ device_static' = FALSE
    /\ opens' = <<>>
    /\ writes' = <<>>
    /\ zones' = <<>>
    /\ speed' = None
    /\ brightness' = None
    /\ static_payloads' = <<>>
    /\ dynamic_payload' = <<>>
    /\ payloads' = <<>>
    /\ result' = "running"

\* a new process is started with command line c; the profile files stay
Invoke(c) ==
    /\ pc = "idle"
    /\ Parsed(c)
    /\ UNCHANGED <<profiles, saved, colorVars, iaVars>>

\* the process ends: its memory and its file handles are gone
Exit ==
    /\ pc = "done"
    /\ pc' = "idle"
    /\ cli' = None
    /\ args' = None
    /\ controller' = "none"
    /\ device' = FALSE
    /\ device_static' = FALSE
    /\ opens' = <<>>
    /\ writes' = <<>>
    /\ zones' = <<>>
    /\ speed' = None
    /\ brightness' = None
    /\ static_payloads' = <<>>
    /\ dynamic_payload' = <<>>
    /\ payloads' = <<>>
    /\ result' = "running"
    /\ UNCHANGED <<profiles, saved, colorVars, iaVars>>

\* if args.interactive {args = interactive_mode();}
Interactive(results) ==
    /\ pc = "parsed"
    /\ pc' = "color"
    /\ IF args.interactive
       THEN \E r \in results : args' = r
       ELSE args' = args
    /\ UNCHANGED <<cli, profiles, saved, controller, device, device_static, opens,
                   writes, zones, speed, brightness, static_payloads,
                   dynamic_payload, payloads, result, colorVars, iaVars>>

\* the --color override replaces red, green and blue of args
ResolveColor ==
    /\ pc = "color"
    /\ LET parsed_color == IF args.color = None THEN Ok(<<args.red, args.green, args.blue>>)
                           ELSE parse_color(args.color[1])
       IN  IF parsed_color.ok
           THEN /\ args' = [args EXCEPT !.red = parsed_color.val[1],
                                        !.green = parsed_color.val[2],
                                        !.blue = parsed_color.val[3]]
                /\ pc' = "list"
                /\ result' = result
           ELSE /\ args' = args
                /\ pc' = "done"
                /\ result' = "error"
    /\ UNCHANGED <<cli, profiles, saved, controller, device, device_static, opens,
                   writes, zones, speed, brightness, static_payloads,
                   dynamic_payload, payloads, colorVars, iaVars>>

\* create_dir_all of the config directory, then --list returns early
ListProfiles ==
    /\ pc = "list"
    /\ \E io_ok \in BOOLEAN :
         IF ~io_ok THEN pc' = "done" /\ result' = "error"
         ELSE IF args.list THEN pc' = "done" /\ result' = "ok"
         ELSE pc' = "load" /\ result' = result
    /\ UNCHANGED <<cli, args, profiles, saved, controller, device, device_static,
                   opens, writes, zones, speed, brightness, static_payloads,
                   dynamic_payload, payloads, colorVars, iaVars>>

\* let args = if let Some(profile) = args.load { from_reader(File::open) } else { args }
LoadProfile ==
    /\ pc = "load"
    /\ IF args.load = None
       THEN args' = args /\ pc' = "save" /\ result' = result
       ELSE IF profiles[args.load[1]] = None \/ ~Deserialize(profiles[args.load[1]][1]).ok
       THEN args' = args /\ pc' = "done" /\ result' = "error"
       ELSE /\ args' = Deserialize(profiles[args.load[1]][1]).val
            /\ pc' = "save"
            /\ result' = result
    /\ UNCHANGED <<cli, profiles, saved, controller, device, device_static, opens,
                   writes, zones, speed, brightness, static_payloads,
                   dynamic_payload, payloads, colorVars, iaVars>>

\* if let Some(profile) = args.save { to_writer_pretty(File::create(path), &args) }
\* File::create may fail, leaving the file as it was; the write may fail
\* after File::create has truncated the file
SaveProfile ==
    /\ pc = "save"
    /\ IF args.save = None
       THEN pc' = "validate" /\ UNCHANGED <<profiles, saved, result>>
       ELSE \E io \in {"ok", "create failed", "write failed"} :
              CASE io = "ok" ->
                     /\ profiles' = [profiles EXCEPT ![args.save[1]] = Some(Serialize(args))]
                     /\ saved' = [saved EXCEPT ![args.save[1]] = Some(args)]
                     /\ pc' = "validate"
                     /\ result' = result
                [] io = "create failed" ->
                     pc' = "done" /\ result' = "error" /\ UNCHANGED <<profiles, saved>>
                [] io = "write failed" ->
                     /\ profiles' = [profiles EXCEPT ![args.save[1]] = Some(Truncated)]
                     /\ saved' = [saved EXCEPT ![args.save[1]] = None]
                     /\ pc' = "done"
                     /\ result' = "error"
    /\ UNCHANGED <<cli, args, controller, device, device_static, opens,
                   writes, zones, speed, brightness, static_payloads,
                   dynamic_payload, payloads, colorVars, iaVars>>

ControllerNew(dry_run) == IF dry_run THEN "DryRun" ELSE "Real"

\* KeyboardController::new, Speed::new, Brightness::new, convert_zones and
\* the dispatch on args.mode
Validate ==
    /\ pc = "validate"
    /\ controller' = ControllerNew(args.dry_run)
    /\ IF ~SpeedNew(args.speed).ok
       THEN pc' = "done" /\ result' = "error" /\ UNCHANGED <<speed, brightness, zones>>
       ELSE IF ~BrightnessNew(args.brightness).ok
       THEN /\ pc' = "done" /\ result' = "error"
            /\ speed' = SpeedNew(args.speed).val
            /\ UNCHANGED <<brightness, zones>>
       ELSE IF ~convert_zones(args.zones).ok
       THEN /\ pc' = "done" /\ result' = "error"
            /\ speed' = SpeedNew(args.speed).val
            /\ brightness' = BrightnessNew(args.brightness).val
            /\ UNCHANGED zones
       ELSE /\ speed' = SpeedNew(args.speed).val
            /\ brightness' = BrightnessNew(args.brightness).val
            /\ zones' = convert_zones(args.zones).val
            /\ pc' = IF args.mode = "Static" THEN "apply_static" ELSE "apply_dynamic"
            /\ result' = result
    /\ UNCHANGED <<cli, args, profiles, saved, device, device_static, opens, writes,
                   static_payloads, dynamic_payload, payloads, colorVars, iaVars>>

\* RGB::to_bytes of RGB::new(args.red, args.green, args.blue)
ColorBytes == <<args.red, args.green, args.blue>>

\* the 4-byte record of one zone (byte offsets 0..3 are positions 1..4)
StaticPayload(mask, color) ==
    [i \in 1..PAYLOAD_SIZE_STATIC |->
        IF i = 1 THEN mask ELSE IF i \in 2..4 THEN color[i - 1] ELSE 0]

\* apply_static, the loop over the zones: no I/O
ApplyStatic ==
    /\ pc = "apply_static"
    /\ \E overflow_checks \in BOOLEAN :
         IF \E k \in 1..Len(zones) : ~ToMask(zones[k], overflow_checks).ok
         THEN /\ pc' = "done"
              /\ result' = "panic"
              /\ UNCHANGED <<static_payloads, payloads>>
         ELSE /\ static_payloads' =
                    [k \in 1..Len(zones) |->
                        StaticPayload(ToMask(zones[k], overflow_checks).val, ColorBytes)]
              /\ payloads' =
                    [k \in 1..Len(zones) |->
                        [device |-> CHARACTER_DEVICE_STATIC,
                         payload |-> StaticPayload(ToMask(zones[k], overflow_checks).val,
                                                   ColorBytes)]]
              /\ pc' = IF controller = "Real" THEN "open_static" ELSE "enable"
              /\ result' = result
    /\ UNCHANGED <<cli, args, profiles, saved, controller, device, device_static,
                   opens, writes, zones, speed, brightness, dynamic_payload,
                   colorVars, iaVars>>

\* lazy_open_static_device
OpenStatic ==
    /\ pc = "open_static"
    /\ controller = "Real"
    /\ \E io_ok \in BOOLEAN :
         IF device_static
         THEN pc' = "write_static" /\ UNCHANGED <<device_static, opens, result>>
         ELSE IF io_ok
         THEN /\ device_static' = TRUE
              /\ opens' = Append(opens, CHARACTER_DEVICE_STATIC)
              /\ pc' = "write_static"
              /\ result' = result
         ELSE pc' = "done" /\ result' = "error" /\ UNCHANGED <<device_static, opens>>
    /\ UNCHANGED <<cli, args, profiles, saved, controller, device, writes, zones,
                   speed, brightness, static_payloads, dynamic_payload, payloads,
                   colorVars, iaVars>>

\* WriteStatic taking the records from the back of the list
WriteStatic_Reversed ==
    /\ pc = "write_static"
    /\ IF static_payloads = <<>>
       THEN pc' = "enable" /\ UNCHANGED <<writes, static_payloads, result>>
       ELSE \E io_ok \in BOOLEAN :
              IF io_ok
              THEN /\ writes' = Append(writes,
                                       [device |-> CHARACTER_DEVICE_STATIC,
                                        payload |-> static_payloads[Len(static_payloads)]])
                   /\ static_payloads' = SubSeq(static_payloads, 1, Len(static_payloads) - 1)
                   /\ pc' = pc
                   /\ result' = result
              ELSE pc' = "done" /\ result' = "error" /\ UNCHANGED <<writes, static_payloads>>
    /\ UNCHANGED <<cli, args, profiles, saved, controller, device, device_static,
                   opens, zones, speed, brightness, dynamic_payload, payloads,
                   colorVars, iaVars>>

\* for payload in static_payloads { device_static.write_all(&payload)? }
WriteStatic ==
    /\ pc = "write_static"
    /\ IF static_payloads = <<>>
       THEN pc' = "enable" /\ UNCHANGED <<writes, static_payloads, result>>
       ELSE \E io_ok \in BOOLEAN :
              IF io_ok
              THEN /\ writes' = Append(writes, [device |-> CHARACTER_DEVICE_STATIC,
                                                payload |-> Head(static_payloads)])
                   /\ static_payloads' = Tail(static_payloads)
                   /\ pc' = pc
                   /\ result' = result
              ELSE pc' = "done" /\ result' = "error" /\ UNCHANGED <<writes, static_payloads>>
    /\ UNCHANGED <<cli, args, profiles, saved, controller, device, device_static,
                   opens, zones, speed, brightness, dynamic_payload, payloads,
                   colorVars, iaVars>>

\* the enable record of apply_static
EnablePayload ==
    [i \in 1..PAYLOAD_SIZE |-> IF i = 3 THEN 100 ELSE IF i = 10 THEN 1 ELSE 0]

Enable ==
    /\ pc = "enable"
    /\ dynamic_payload' = EnablePayload
    /\ pc' = IF controller = "Real" THEN "open_device" ELSE "return"
    /\ UNCHANGED <<cli, args, profiles, saved, controller, device, device_static,
                   opens, writes, zones, speed, brightness, static_payloads,
                   payloads, result, colorVars, iaVars>>

\* DynamicPayload with speed and brightness in each other's place
DynamicPayload_Swapped(mode, s, b, direction, color) ==
    [i \in 1..PAYLOAD_SIZE |->
        IF i = 1 THEN ModeAsU8(mode)
        ELSE IF i = 2 THEN b
        ELSE IF i = 3 THEN s
        ELSE IF i = 4 THEN (IF mode = "Wave" THEN 8 ELSE 0)
        ELSE IF i = 5 THEN DirectionAsU8(direction)
        ELSE IF i \in 6..8 THEN color[i - 5]
        ELSE IF i = 10 THEN 1
        ELSE 0]

\* the 16-byte record of apply_dynamic
DynamicPayload(mode, s, b, direction, color) ==
    [i \in 1..PAYLOAD_SIZE |->
        IF i = 1 THEN ModeAsU8(mode)
        ELSE IF i = 2 THEN s
        ELSE IF i = 3 THEN b
        ELSE IF i = 4 THEN (IF mode = "Wave" THEN 8 ELSE 0)
        ELSE IF i = 5 THEN DirectionAsU8(direction)
        ELSE IF i \in 6..8 THEN color[i - 5]
        ELSE IF i = 10 THEN 1
        ELSE 0]

ApplyDynamic ==
    /\ pc = "apply_dynamic"
    /\ dynamic_payload' = DynamicPayload(args.mode, speed[1], brightness[1], args.direction,
                                         ColorBytes)
    /\ pc' = IF controller = "Real" THEN "open_device" ELSE "return"
    /\ UNCHANGED <<cli, args, profiles, saved, controller, device, device_static,
                   opens, writes, zones, speed, brightness, static_payloads,
                   payloads, result, colorVars, iaVars>>

\* lazy_open_device
OpenDevice ==
    /\ pc = "open_device"
    /\ controller = "Real"
    /\ \E io_ok \in BOOLEAN :
         IF device
         THEN pc' = "write_device" /\ UNCHANGED <<device, opens, result>>
         ELSE IF io_ok
         THEN /\ device' = TRUE
              /\ opens' = Append(opens, CHARACTER_DEVICE)
              /\ pc' = "write_device"
              /\ result' = result
         ELSE pc' = "done" /\ result' = "error" /\ UNCHANGED <<device, opens>>
    /\ UNCHANGED <<cli, args, profiles, saved, controller, device_static, writes,
                   zones, speed, brightness, static_payloads, dynamic_payload,
                   payloads, colorVars, iaVars>>

\* device.write_all(&dynamic_payload) of apply_static, write_all(&payload) of
\* apply_dynamic
WriteDevice ==
    /\ pc = "write_device"
    /\ \E io_ok \in BOOLEAN :
         IF io_ok
         THEN /\ writes' = Append(writes, [device |-> CHARACTER_DEVICE,
                                           payload |-> dynamic_payload])
              /\ pc' = "return"
              /\ result' = result
         ELSE pc' = "done" /\ result' = "error" /\ UNCHANGED writes
    /\ UNCHANGED <<cli, args, profiles, saved, controller, device, device_static,
                   opens, zones, speed, brightness, static_payloads,
                   dynamic_payload, payloads, colorVars, iaVars>>

\* Return where only a Real controller pushes the enable record
Return_DryRunOmitsEnable ==
    /\ pc = "return"
    /\ payloads' = IF args.mode = "Static"
                   THEN IF controller = "Real"
                        THEN Append(payloads, [device |-> CHARACTER_DEVICE,
                                               payload |-> dynamic_payload])
                        ELSE payloads
                   ELSE <<[device |-> CHARACTER_DEVICE, payload |-> dynamic_payload]>>
    /\ pc' = "done"
    /\ result' = "ok"
    /\ UNCHANGED <<cli, args, profiles, saved, controller, device, device_static,
                   opens, writes, zones, speed, brightness, static_payloads,
                   dynamic_payload, colorVars, iaVars>>

\* payloads.push(payload); Ok(payloads) of apply_static, Ok(vec![device_payload])
\* of apply_dynamic; main then prints and returns Ok(())
Return ==
    /\ pc = "return"
    /\ payloads' = IF args.mode = "Static"
                   THEN Append(payloads, [device |-> CHARACTER_DEVICE,
                                          payload |-> dynamic_payload])
                   ELSE <<[device |-> CHARACTER_DEVICE, payload |-> dynamic_payload]>>
    /\ pc' = "done"
    /\ result' = "ok"
    /\ UNCHANGED <<cli, args, profiles, saved, controller, device, device_static,
                   opens, writes, zones, speed, brightness, static_payloads,
                   dynamic_payload, colorVars, iaVars>>

Run(results) ==
    \/ Interactive(results)
    \/ ResolveColor
    \/ ListProfiles
    \/ LoadProfile
    \/ SaveProfile
    \/ Validate
    \/ ApplyStatic
    \/ OpenStatic
    \/ WriteStatic
    \/ Enable
    \/ ApplyDynamic
    \/ OpenDevice
    \/ WriteDevice
    \/ Return

(***************************************************************************)
(* utils.rs: the parsers of the prompts.                                   *)
(***************************************************************************)
UpperLetters == <<"A", "B", "C", "D", "E", "F", "G", "H", "I", "J", "K", "L", "M", "N", "O", "P", "Q", "R", "S", "T", "U", "V", "W", "X", "Y", "Z">>
LowerLetters == <<"a", "b", "c", "d", "e", "f", "g", "h", "i", "j", "k", "l", "m", "n", "o", "p", "q", "r", "s", "t", "u", "v", "w", "x", "y", "z">>

\* char::to_lowercase on ASCII
ToLowercase(s) ==
    [i \in 1..Len(s) |->
        IF IndexIn(s[i], UpperLetters) > 0 THEN LowerLetters[IndexIn(s[i], UpperLetters)]
        ELSE s[i]]

\* the names matched by FromStr for LightingMode, in the order of the enum
LightingModeNames == <<<<"s", "t", "a", "t", "i", "c">>,
                      <<"b", "r", "e", "a", "t", "h">>,
                      <<"n", "e", "o", "n">>,
                      <<"w", "a", "v", "e">>,
                      <<"s", "h", "i", "f", "t", "i", "n", "g">>,
                      <<"z", "o", "o", "m">>>>
\* "{:?}" of a LightingMode, in the order of the enum
LightingModeDebug == <<<<"S", "t", "a", "t", "i", "c">>,
                      <<"B", "r", "e", "a", "t", "h">>,
                      <<"N", "e", "o", "n">>,
                      <<"W", "a", "v", "e">>,
                      <<"S", "h", "i", "f", "t", "i", "n", "g">>,
                      <<"Z", "o", "o", "m">>>>
\* the names matched by FromStr for Direction, in the order of the enum
DirectionNames == <<<<"r", "i", "g", "h", "t", "-", "t", "o", "-", "l", "e", "f", "t">>,
                   <<"l", "e", "f", "t", "-", "t", "o", "-", "r", "i", "g", "h", "t">>>>
\* "{:?}" of a Direction, in the order of the enum
DirectionDebug == <<<<"R", "i", "g", "h", "t", "T", "o", "L", "e", "f", "t">>,
                   <<"L", "e", "f", "t", "T", "o", "R", "i", "g", "h", "t">>>>

parse_lighting_mode(input) ==
    IF IndexIn(ToLowercase(input), LightingModeNames) > 0
    THEN Ok(LightingMode[IndexIn(ToLowercase(input), LightingModeNames)])
    ELSE Err("Invalid lighting mode, please try again.")

parse_direction(input) ==
    IF IndexIn(ToLowercase(input), DirectionNames) > 0
    THEN Ok(Direction[IndexIn(ToLowercase(input), DirectionNames)])
    ELSE Err("Invalid direction, please try again.")

parse_zones(input) ==
    LET parts == Split(input, ",")
        nums == [i \in 1..Len(parts) |-> FromStrRadix(Trim(parts[i]), 10)]
    IN  IF \E i \in 1..Len(nums) : nums[i] < 0
        THEN Err("Zones must be numbers separated by commas.")
        ELSE Ok(nums)

parse_u8(input, min, max) ==
    LET value == FromStrRadix(input, 10)
    IN  IF value < 0 THEN Err("must be a number.")
        ELSE IF value >= min /\ value <= max THEN Ok(value)
        ELSE Err("must be between min and max.")

parse_confirmation(input) ==
    IF ToLowercase(input) \in {<<"y">>, <<"y", "e", "s">>} THEN Ok(TRUE)
    ELSE IF ToLowercase(input) \in {<<"n">>, <<"n", "o">>} THEN Ok(FALSE)
    ELSE Err("Invalid input, please enter 'Y' or 'N'.")

(***************************************************************************)
(* interactive.rs: gather_args prompt by prompt, and interactive_mode.     *)
(***************************************************************************)
RECURSIVE JoinTexts(_, _)
JoinTexts(texts, sep) ==
    IF texts = <<>> THEN <<>>
    ELSE IF Len(texts) = 1 THEN texts[1]
    ELSE texts[1] \o sep \o JoinTexts(Tail(texts), sep)

\* "{:?}" of a Vec<u8>
DebugZones(zs) ==
    <<"[">> \o JoinTexts([i \in 1..Len(zs) |-> ToText(zs[i])], <<",", " ">>) \o <<"]">>

\* the default of each prompt: drawn from prev when it is Some, fixed otherwise
DefaultText(prompt, prev) ==
    CASE prompt = "mode" ->
            IF prev = None THEN <<"s", "t", "a", "t", "i", "c">>
            ELSE LightingModeDebug[IndexIn(prev[1].mode, LightingMode)]
      [] prompt = "zones" ->
            IF prev = None THEN <<"0">> ELSE DebugZones(prev[1].zones)
      [] prompt = "speed" ->
            IF prev = None THEN <<"4">> ELSE ToText(prev[1].speed)
      [] prompt = "brightness" ->
            IF prev = None THEN <<"1", "0", "0">> ELSE ToText(prev[1].brightness)
      [] prompt = "direction" ->
            IF prev = None THEN <<"l", "e", "f", "t", "-", "t", "o", "-", "r", "i", "g", "h", "t">>
            ELSE DirectionDebug[IndexIn(prev[1].direction, Direction)]
      [] prompt = "color" ->
            IF prev = None THEN <<"5", "0", ",", "2", "5", "5", ",", "5", "0">>
            ELSE ToText(prev[1].red) \o <<",">> \o ToText(prev[1].green)
                 \o <<",">> \o ToText(prev[1].blue)
      [] prompt = "dry_run" -> <<"N">>
      [] prompt = "confirm" -> <<"Y">>

\* what the user may type instead of accepting the default
Typed(prompt) ==
    CASE prompt = "mode" -> {<<"W", "a", "v", "e">>, <<"x">>}
      [] prompt = "zones" -> {<<"2", ",", "1">>, <<"3", ",", " ", "0">>, <<"7">>, <<"x">>}
      [] prompt = "speed" -> {<<"9">>, <<"1", "0">>}
      [] prompt = "brightness" -> {<<"0">>, <<"1", "0", "1">>}
      [] prompt = "direction" -> {<<"r", "i", "g", "h", "t", "-", "t", "o", "-", "l", "e", "f", "t">>, <<"L", "e", "f", "t", "T", "o", "R", "i", "g", "h", "t">>}
      [] prompt = "color" -> {<<"#", "f", "f", "f">>, <<"1", ",", "2", ",", "3", "4">>}
      [] prompt = "dry_run" -> {<<"y">>, <<"x">>}
      [] prompt = "confirm" -> {<<"n">>, <<"x">>}

\* the answers of a round before any prompt was answered
NoAnswers == [mode |-> "Static", zones |-> <<>>, speed |-> 0, brightness |-> 0,
              direction |-> "LeftToRight", color |-> <<0, 0, 0>>, dry_run |-> FALSE]

\* interact_text: the default shown, or a typed text
Inputs(prompt) == {shown} \cup Typed(prompt)

\* prompt_with_retry: parsed maps each input to the result of parse_fn; a
\* text that does not parse is reported and the prompt is shown again
PromptWithRetry(prompt, parsed, field, next) ==
    /\ \E input \in Inputs(prompt) :
         IF parsed[input].ok
         THEN /\ entered' = [entered EXCEPT ![field] = parsed[input].val]
              /\ ipc' = next
              /\ shown' = DefaultText(next, prev_args)
              /\ retries' = 0
         ELSE /\ retries < MaxRetries
              /\ retries' = retries + 1
              /\ UNCHANGED <<entered, ipc, shown>>
    /\ UNCHANGED <<prev_args, ia_args, mainVars, colorVars>>

ParseSpeed(input) == parse_u8(input, 0, 9)
ParseBrightness(input) == parse_u8(input, 0, 100)

PromptMode ==
    /\ ipc = "mode"
    /\ PromptWithRetry("mode", [t \in Inputs("mode") |-> parse_lighting_mode(t)],
                       "mode", "zones")

\* speed, brightness and direction are asked for unless the mode is Static
PromptZones ==
    /\ ipc = "zones"
    /\ PromptWithRetry("zones", [t \in Inputs("zones") |-> parse_zones(t)],
                       "zones",
                       IF entered.mode # "Static" THEN "speed" ELSE "color")

PromptSpeed ==
    /\ ipc = "speed"
    /\ PromptWithRetry("speed", [t \in Inputs("speed") |-> ParseSpeed(t)],
                       "speed", "brightness")

PromptBrightness ==
    /\ ipc = "brightness"
    /\ PromptWithRetry("brightness", [t \in Inputs("brightness") |-> ParseBrightness(t)],
                       "brightness", "direction")

PromptDirection ==
    /\ ipc = "direction"
    /\ PromptWithRetry("direction", [t \in Inputs("direction") |-> parse_direction(t)],
                       "direction", "color")

PromptColor ==
    /\ ipc = "color"
    /\ PromptWithRetry("color", [t \in Inputs("color") |-> parse_color(t)],
                       "color", "dry_run")

\* the last prompt of gather_args; gather_args returns and interactive_mode
\* prints the summary and asks for the confirmation
PromptDryRun ==
    /\ ipc = "dry_run"
    /\ \E input \in Inputs("dry_run") :
         IF parse_confirmation(input).ok
         THEN /\ entered' = [entered EXCEPT !.dry_run = parse_confirmation(input).val]
              /\ ia_args' = Some(GatherArgs(entered'))
              /\ ipc' = "confirm"
              /\ shown' = DefaultText("confirm", prev_args)
              /\ retries' = 0
         ELSE /\ retries < MaxRetries
              /\ retries' = retries + 1
              /\ UNCHANGED <<entered, ia_args, ipc, shown>>
    /\ UNCHANGED <<prev_args, mainVars, colorVars>>

\* the argument interactive_mode passes to gather_args
NextPrevArgs(last) == None

\* "Apply these settings? (Y/n)": break, or gather_args again
Confirm ==
    /\ ipc = "confirm"
    /\ \E input \in Inputs("confirm") :
         IF parse_confirmation(input).ok
         THEN IF parse_confirmation(input).val
              THEN /\ ipc' = "returned"
                   /\ UNCHANGED <<prev_args, entered, shown>>
                   /\ retries' = 0
              ELSE /\ ipc' = "mode"
                   /\ prev_args' = NextPrevArgs(ia_args)
                   /\ entered' = NoAnswers
                   /\ shown' = DefaultText("mode", prev_args')
                   /\ retries' = 0
         ELSE /\ retries < MaxRetries
              /\ retries' = retries + 1
              /\ UNCHANGED <<prev_args, entered, ipc, shown>>
    /\ UNCHANGED <<ia_args, mainVars, colorVars>>

(***************************************************************************)
(* The command lines and interactive answers the model tries.              *)
(***************************************************************************)
Text123 == <<"#", "1", "2", "3">>
DefaultColor == <<240, 48, 32>>
OtherColor == <<1, 2, 255>>

\* lists of 1..MaxZones zone numbers in 0..MaxZone
ZoneLists == UNION {[1..n -> 0..MaxZone] : n \in 1..MaxZones}

\* single invocations over the lighting settings, no profile flag
ApplyCLIs ==
    {MkArgs(m, z, s, b, d, None, rgb, None, None, FALSE, dry, FALSE) :
        m \in {LightingMode[i] : i \in 1..Len(LightingMode)},
        z \in ZoneLists, s \in {9, 10}, b \in {50, 101},
        d \in {Direction[i] : i \in 1..Len(Direction)},
        rgb \in {DefaultColor, OtherColor}, dry \in BOOLEAN}

\* <<mode, zones, speed, brightness, direction, rgb>>
\* clap's default_value of every field
DefaultSettings == <<"Static", <<0>>, 4, 100, "LeftToRight", DefaultColor>>

Settings ==
    {DefaultSettings,
     <<"Static", <<0, 1>>, 4, 50, "LeftToRight", OtherColor>>,
     <<"Wave", <<3, 1>>, 10, 50, "RightToLeft", OtherColor>>,
     <<"Breath", <<2>>, 9, 100, "RightToLeft", DefaultColor>>}

CLI(l, color, save, load, list, dry, ia) ==
    MkArgs(l[1], l[2], l[3], l[4], l[5], color, l[6], save, load, list, dry, ia)

\* invocations that set the lights and may save them as profile A, or the
\* default settings as profile B
PlainCLIs ==
    {CLI(l, color, save, None, FALSE, dry, FALSE) :
        l \in Settings, color \in {None, Some(Text123)},
        save \in {None, Some("A")}, dry \in BOOLEAN}
    \cup {CLI(DefaultSettings, None, Some("B"), None, FALSE, dry, FALSE) :
            dry \in BOOLEAN}

\* invocations with --load, with and without --color, --save and --dry-run
LoadCLIs ==
    {CLI(DefaultSettings, color, save, Some(load), FALSE, dry, FALSE) :
        color \in {None, Some(Text123)}, save \in {None, Some("B")},
        load \in ProfileNames, dry \in BOOLEAN}

\* invocations with --list
ListCLIs ==
    {CLI(DefaultSettings, None, save, load, TRUE, FALSE, FALSE) :
        save \in {None, Some("A")}, load \in {None, Some("A")}}

\* invocations with --interactive
InteractiveCLIs ==
    {CLI(DefaultSettings, None, save, load, FALSE, dry, TRUE) :
        save \in {None, Some("A")}, load \in {None, Some("A")}, dry \in BOOLEAN}

ProfileCLIs == PlainCLIs \cup LoadCLIs \cup ListCLIs \cup InteractiveCLIs

\* parsed answers of the prompts of gather_args
InteractiveAnswers ==
    {[mode |-> l[1], zones |-> l[2], speed |-> l[3], brightness |-> l[4],
      direction |-> l[5], color |-> l[6], dry_run |-> dry] :
        l \in {<<"Static", <<0, 1>>, 4, 100, "LeftToRight", <<50, 255, 50>>>>,
               <<"Wave", <<5>>, 9, 0, "RightToLeft", OtherColor>>},
        dry \in BOOLEAN}

InteractiveResults == {GatherArgs(a) : a \in InteractiveAnswers}

(***************************************************************************)
(* Specifications.                                                         *)
(***************************************************************************)
ColorIdle == color_rgb = None /\ color_input = None /\ color_result = None

InteractiveIdle ==
    /\ ipc = "idle"
    /\ prev_args = None
    /\ ia_args = None
    /\ entered = NoAnswers
    /\ shown = <<>>
    /\ retries = 0

MainIdle ==
    /\ pc = "idle"
    /\ cli = None
    /\ args = None
    /\ profiles = NoProfiles
    /\ saved = NoProfiles
    /\ controller = "none"
    /\ device = FALSE
    /\ device_static = FALSE
    /\ opens = <<>>
    /\ writes = <<>>
    /\ zones = <<>>
    /\ speed = None
    /\ brightness = None
    /\ static_payloads = <<>>
    /\ dynamic_payload = <<>>
    /\ payloads = <<>>
    /\ result = "running"

\* the whole program: any number of invocations over the same profile files
Init == MainIdle /\ ColorIdle /\ InteractiveIdle

Next ==
    \/ \E c \in ProfileCLIs : Invoke(c)
    \/ Run(InteractiveResults)
    \/ Exit

Spec == Init /\ [][Next]_vars

\* one invocation over the lighting settings
InitApply ==
    /\ ColorIdle
    /\ InteractiveIdle
    /\ pc = "parsed"
    /\ cli \in ApplyCLIs
    /\ args = cli
    /\ profiles = NoProfiles
    /\ saved = NoProfiles
    /\ controller = "none"
    /\ device = FALSE
    /\ device_static = FALSE
    /\ opens = <<>>
    /\ writes = <<>>
    /\ zones = <<>>
    /\ speed = None
    /\ brightness = None
    /\ static_payloads = <<>>
    /\ dynamic_payload = <<>>
    /\ payloads = <<>>
    /\ result = "running"

NextApply == Run(InteractiveResults)

SpecApply == InitApply /\ [][NextApply]_vars

\* parse_color applied to a text
ParseColor ==
    /\ color_input # None
    /\ color_result = None
    /\ color_result' = Some(parse_color(color_input[1]))
    /\ UNCHANGED <<color_rgb, color_input, mainVars, iaVars>>

Components == (0..MaxComponent) \cup {34, 100, 255}

\* format!("{},{},{}", r, g, b)
DecimalText(r, g, b) ==
    ToText(r) \o <<",">> \o ToText(g) \o <<",">> \o ToText(b)

HexTexts == {<<"#", "f", "f", "f">>, <<"#", "1", "2", "a", "B", "0", "0">>,
             <<"f", "f", "8", "0", "0", "0">>, <<"1", "2", "3">>,
             <<"1", "2", ",", "3", "4">>, <<" ", "1", ",", "2", ",", "3", " ">>}

\* parse_color on the decimal text of a triple, or on another text
InitColor ==
    /\ MainIdle
    /\ InteractiveIdle
    /\ color_result = None
    /\ \/ \E r \in Components, g \in Components, b \in Components :
             color_rgb = Some(<<r, g, b>>) /\ color_input = Some(DecimalText(r, g, b))
       \/ color_rgb = None /\ color_input \in {Some(t) : t \in HexTexts}

SpecColor == InitColor /\ [][ParseColor]_vars

\* interactive_mode from its first prompt
InitInteractive ==
    /\ MainIdle
    /\ ColorIdle
    /\ ipc = "mode"
    /\ prev_args = None
    /\ ia_args = None
    /\ entered = NoAnswers
    /\ shown = DefaultText("mode", None)
    /\ retries = 0

NextInteractive ==
    \/ PromptMode
    \/ PromptZones
    \/ PromptSpeed
    \/ PromptBrightness
    \/ PromptDirection
    \/ PromptColor
    \/ PromptDryRun
    \/ Confirm

SpecInteractive == InitInteractive /\ [][NextInteractive]_vars

(***************************************************************************)
(* Claims about the encoder and the device writer (SpecApply).             *)
(***************************************************************************)
NothingOpenedOrWritten ==
    ~device /\ ~device_static /\ opens = <<>> /\ writes = <<>>

\* C1 (as stated): every zone handed to the static encoder is in 1..4 and
\* byte 0 of each static record has exactly bit (zone - 1) set; zone 0 never
\* reaches Zone::to_mask, also when it is given together with other zones.
C1_ZoneZeroNeverEncoded ==
    /\ pc = "apply_static" => \A k \in 1..Len(zones) : zones[k] \in 1..4
    /\ \A k \in 1..Len(payloads) :
          payloads[k].device = CHARACTER_DEVICE_STATIC
              => /\ zones[k] \in 1..4
                 /\ payloads[k].payload[1] = 2 ^ (zones[k] - 1)

\* the writes C2 expects for the settings of a: one record per zone, the
\* bit of zone z being bit (z - 1) modulo 8, then the enable record; or the
\* one dynamic record
C2_Expected(a) ==
    IF a.mode = "Static"
    THEN LET zs == IF a.zones = <<0>> THEN <<1, 2, 3, 4>> ELSE a.zones
         IN  [k \in 1..(Len(zs) + 1) |->
                 IF k <= Len(zs)
                 THEN [device |-> "/dev/acer-gkbbl-static-0",
                       payload |-> <<2 ^ ((zs[k] + 7) % 8), a.red, a.green, a.blue>>]
                 ELSE [device |-> "/dev/acer-gkbbl-0",
                       payload |-> <<0, 0, 100, 0, 0, 0, 0, 0, 0, 1, 0, 0, 0, 0, 0, 0>>]]
    ELSE <<[device |-> "/dev/acer-gkbbl-0",
            payload |-> <<CASE a.mode = "Breath" -> 1 [] a.mode = "Neon" -> 2
                            [] a.mode = "Wave" -> 3 [] a.mode = "Shifting" -> 4
                            [] a.mode = "Zoom" -> 5,
                          a.speed, a.brightness,
                          IF a.mode = "Wave" THEN 8 ELSE 0,
                          IF a.direction = "RightToLeft" THEN 1 ELSE 2,
                          a.red, a.green, a.blue, 0, 1, 0, 0, 0, 0, 0, 0>>]>>

\* C2: a DryRun controller opens no device and writes nothing, and the
\* payload list it returns is, device by device and byte by byte and in the
\* same order, the sequence of writes a Real controller performs for the
\* same settings when every open and write succeeds.
C2_DryRunReturnsRealWrites ==
    /\ controller = "DryRun" => NothingOpenedOrWritten
    /\ (pc = "done" /\ result = "ok" /\ controller = "DryRun")
          => payloads = C2_Expected(args)
    /\ (pc = "done" /\ result = "ok" /\ controller = "Real")
          => writes = C2_Expected(args) /\ writes = payloads

C2_Witness ==
    /\ pc = "done" /\ result = "ok" /\ controller = "DryRun"
    /\ args.mode = "Static" /\ args.zones = <<3, 1>>
    /\ Len(payloads) = 3

\* C3: in Static mode with N selected zones a Real run writes N 4-byte
\* records [mask, r, g, b] to the static device, the k-th for the k-th zone
\* with the mask Zone::to_mask yields for it (bit (zone - 1) modulo 8),
\* and only after all of them one 16-byte enable record to the other device
\* with byte 2 = 100, byte 9 = 1 and the rest 0, whatever the brightness; no
\* enable record is written before a zone record.
C3_StaticWriteOrder ==
    (pc # "idle" /\ controller = "Real" /\ args.mode = "Static") =>
        /\ Len(writes) <= Len(zones) + 1
        /\ \A i \in 1..Len(writes) :
              IF i <= Len(zones)
              THEN /\ writes[i].device = "/dev/acer-gkbbl-static-0"
                   /\ Len(writes[i].payload) = 4
                   /\ writes[i].payload[1] = 2 ^ ((zones[i] + 7) % 8)
                   /\ SubSeq(writes[i].payload, 2, 4) = <<args.red, args.green, args.blue>>
              ELSE /\ writes[i].device = "/dev/acer-gkbbl-0"
                   /\ writes[i].payload = <<0, 0, 100, 0, 0, 0, 0, 0, 0, 1, 0, 0, 0, 0, 0, 0>>
        /\ (pc = "done" /\ result = "ok") => Len(writes) = Len(zones) + 1

C3_Witness ==
    /\ pc = "done" /\ result = "ok" /\ controller = "Real"
    /\ args.mode = "Static" /\ args.brightness = 50
    /\ zones = <<4, 2>>
    /\ Len(writes) = 3

\* C4: every non-Static mode yields exactly one payload, for the non-static
\* device, of 16 bytes [mode ordinal, speed, brightness, 8 if Wave else 0,
\* direction code, red, green, blue, 0, 1, 0, 0, 0, 0, 0, 0]; the zones have
\* no effect on it.
C4_DynamicPayload ==
    (pc = "done" /\ result = "ok" /\ args.mode # "Static") =>
        payloads =
            <<[device |-> "/dev/acer-gkbbl-0",
               payload |->
                   <<CASE args.mode = "Breath" -> 1 [] args.mode = "Neon" -> 2
                       [] args.mode = "Wave" -> 3 [] args.mode = "Shifting" -> 4
                       [] args.mode = "Zoom" -> 5,
                     args.speed, args.brightness,
                     IF args.mode = "Wave" THEN 8 ELSE 0,
                     IF args.direction = "RightToLeft" THEN 1 ELSE 2,
                     args.red, args.green, args.blue,
                     0, 1, 0, 0, 0, 0, 0, 0>>]>>

C4_Witness ==
    /\ pc = "done" /\ result = "ok"
    /\ args.mode = "Wave" /\ args.direction = "RightToLeft"
    /\ args.zones = <<0, 1>>
    /\ Len(payloads) = 1 /\ payloads[1].payload[4] = 8

\* the settings main validates are out of range
Invalid(a) ==
    \/ a.speed > 9
    \/ a.brightness > 100
    \/ \E i \in 1..Len(a.zones) : a.zones[i] > 4

\* args holds the effective settings: those left after interactive input
\* and profile load
EffectiveKnown == pc \in {"save", "validate"} \/ (pc # "idle" /\ controller # "none")

\* C9: if the effective speed is above 9, the effective brightness above
\* 100 or a selected zone above 4, the run ends in an error and no device is
\* opened or written, in every mode.
C9_InvalidSettingsRejected ==
    (EffectiveKnown /\ Invalid(args)) =>
        /\ NothingOpenedOrWritten
        /\ pc \in {"save", "validate", "done"}
        /\ pc = "done" => result = "error"

C9_Witness ==
    /\ pc = "done" /\ result = "error" /\ controller = "Real"
    /\ args.mode = "Static" /\ args.speed = 10 /\ args.brightness = 50
    /\ args.zones = <<1>>

(***************************************************************************)
(* Claims about the flags and the profiles (Spec).                         *)
(***************************************************************************)
\* this run has replaced args by the profile named on its command line
Loaded == /\ pc \in {"save", "validate"} \/ (pc # "idle" /\ controller # "none")
          /\ cli.load # None
          /\ ~cli.interactive
          /\ ~cli.list

LightingOf(a) == <<a.mode, a.zones, a.speed, a.brightness, a.direction,
                   a.red, a.green, a.blue>>

\* C6 (as stated): with --load every lighting setting comes from the loaded
\* profile while the save, load and list flags of the command line stay in
\* effect; --load A --save B writes the resulting model to profile B.
C6_LoadKeepsProfileFlags ==
    Loaded =>
        /\ pc = "save" =>
              LightingOf(args) = LightingOf(Deserialize(profiles[cli.load[1]][1]).val)
        /\ args.save = cli.save
        /\ args.load = cli.load
        /\ args.list = cli.list
        /\ (pc = "validate" /\ cli.save # None)
              => profiles[cli.save[1]] = Some(Serialize(args))

\* C7: a run that loads profile p obtains the model that was last saved as
\* p, equal in every field; a later save of the same name replaces the
\* earlier one.
C7_SaveLoadRoundTrip ==
    /\ \A p \in ProfileNames :
          IF saved[p] = None
          THEN profiles[p] = None \/ ~Deserialize(profiles[p][1]).ok
          ELSE profiles[p] # None /\ Deserialize(profiles[p][1]) = Ok(saved[p][1])
    /\ (Loaded /\ pc = "save") =>
          saved[cli.load[1]] # None /\ args = saved[cli.load[1]][1]

C7_Witness ==
    /\ Loaded /\ pc = "save" /\ cli.load = Some("A")
    /\ args = saved["A"][1]
    /\ args.mode = "Wave" /\ args.color = Some(Text123) /\ args.dry_run
    /\ saved["B"] # None

\* C10 (as stated): when the command line carries --dry-run the process
\* never opens or writes a device file, whatever the other flags.
C10_DryRunFlagNeverTouchesDevice ==
    (pc # "idle" /\ cli.dry_run) => NothingOpenedOrWritten

(***************************************************************************)
(* Claims about the interactive prompter (SpecInteractive) and about       *)
(* parse_color (SpecColor).                                                *)
(***************************************************************************)
\* C5 (as stated): after the summary was rejected, each prompt of the next
\* round offers as its default the value entered for that field in the
\* rejected round, not the fixed default of the first round.
C5_RejectedValuesAreDefaults ==
    (ia_args # None /\ ipc \in {"mode", "zones", "speed", "brightness",
                                "direction", "color"}) =>
        CASE ipc = "mode" ->
                /\ parse_lighting_mode(shown).ok
                /\ parse_lighting_mode(shown).val = ia_args[1].mode
          [] ipc = "zones" ->
                /\ parse_zones(shown).ok
                /\ GatherArgs([NoAnswers EXCEPT !.zones = parse_zones(shown).val]).zones
                      = ia_args[1].zones
          [] ipc = "speed" ->
                /\ ParseSpeed(shown).ok
                /\ ParseSpeed(shown).val = ia_args[1].speed
          [] ipc = "brightness" ->
                /\ ParseBrightness(shown).ok
                /\ ParseBrightness(shown).val = ia_args[1].brightness
          [] ipc = "direction" ->
                /\ parse_direction(shown).ok
                /\ parse_direction(shown).val = ia_args[1].direction
          [] ipc = "color" ->
                /\ parse_color(shown).ok
                /\ parse_color(shown).val
                      = <<ia_args[1].red, ia_args[1].green, ia_args[1].blue>>

\* C8 (as stated): for every r, g, b in 0..255, parse_color of the decimal
\* text "r,g,b" is Ok((r, g, b)), whatever the length of the text, texts of
\* exactly 6 characters included.
C8_DecimalTripleParses ==
    (color_rgb # None /\ color_result # None) =>
        /\ color_result[1].ok
        /\ color_result[1].val = color_rgb[1]

(***************************************************************************)
(* Claims about what validation lets through (SpecInteractive, Spec).      *)
(***************************************************************************)
\* C11 (as stated): the settings interactive_mode returns after the user
\* confirmed pass the validation of main: every zone is in 1..4, the speed
\* is at most 9 and the brightness at most 100.
C11_InteractiveResultsValid ==
    ipc = "returned" =>
        /\ \A i \in 1..Len(ia_args[1].zones) : ia_args[1].zones[i] \in 1..4
        /\ ia_args[1].speed <= 9
        /\ ia_args[1].brightness <= 100

\* C12 (as stated): every profile file a run has written holds settings that
\* pass validation (speed at most 9, brightness at most 100, every zone in
\* 0..4), and a run that ends in a validation error has written no profile.
C12_SavedProfilesValid ==
    /\ \A p \in ProfileNames :
          (profiles[p] # None /\ Deserialize(profiles[p][1]).ok) =>
              LET a == Deserialize(profiles[p][1]).val
              IN  /\ a.speed <= 9
                  /\ a.brightness <= 100
                  /\ \A i \in 1..Len(a.zones) : a.zones[i] \in 0..4
    /\ (pc = "validate" /\ Invalid(args) /\ args.save # None)
          => profiles[args.save[1]] # Some(Serialize(args))

====
